---- MODULE Spec2Model ----
(***************************************************************************)
(* prompt-forge backend (src/backend.py): the retry controller             *)
(* safe_completion, the optimizer fan-out run_optimizers, the judge        *)
(* get_winner_and_scores and the fuser get_fusion, as one state machine.   *)
(*                                                                         *)
(* Texts are TLA+ strings; TLC evaluates Len, \o and SubSeq on them, so    *)
(* substring tests, prefixes and case folding are computed character by    *)
(* character as the Python code computes them.                             *)
(***************************************************************************)
EXTENDS Integers, Sequences, FiniteSets, TLC

VARIABLES
    op,          \* the entry point this run exercises (chosen by the caller)
    results,     \* dict[str, str]: the variants (input of judge/fuser, output of fan-out)
    phase,       \* position of the entry point's coroutine
    pc,          \* per safe_completion call: idle / call / sleep / done
    attempt,     \* per call: the loop variable of `for attempt in range(4)`
    last_error,  \* per call: the local last_error
    sleeps,      \* per call: the durations passed to asyncio.sleep, in order
    history,     \* per call: the outcomes litellm.acompletion produced, in order
    outcome,     \* per call: what safe_completion returned or raised
    slot,        \* run_optimizers' locals coding, research, concise, structured
    cooldowns,   \* the durations of run_optimizers' own asyncio.sleep calls
    judged,      \* the pair get_winner_and_scores returned
    fused,       \* the string get_fusion returned
    model,       \* _normalize_groq_model's argument
    normalized,  \* what _normalize_groq_model returned, call after call
    json_text,   \* _safe_json_parse's argument
    json_value   \* what _safe_json_parse returned

\* the frames of the two helpers, when they are run on their own
helpers == <<model, normalized, json_text, json_value>>

vars == <<op, results, phase, pc, attempt, last_error, sleeps, history,
          outcome, slot, cooldowns, judged, fused, helpers>>

----------------------------------------------------------------------------
(* Strings *)

UpperLetters == "ABCDEFGHIJKLMNOPQRSTUVWXYZ"
LowerLetters == "abcdefghijklmnopqrstuvwxyz"

CharAt(s, i) == SubSeq(s, i, i)

\* str.lower() on one character
LowerChar(ch) ==
    IF \E i \in 1..Len(UpperLetters) : CharAt(UpperLetters, i) = ch
    THEN CharAt(LowerLetters,
                CHOOSE i \in 1..Len(UpperLetters) : CharAt(UpperLetters, i) = ch)
    ELSE ch

RECURSIVE JoinRange(_, _, _)
JoinRange(pieces, i, j) ==
    IF i > j THEN ""
    ELSE IF i = j THEN pieces[i]
    ELSE LET Half(a, b) == JoinRange(pieces, a, b)
         IN  Half(i, (i + j) \div 2) \o Half((i + j) \div 2 + 1, j)

\* "".join(pieces); the pieces are computed once, whatever the evaluation mode
Join(pieces) ==
    CHOOSE joined \in {JoinRange(p, 1, Len(p)) : p \in {pieces}} : TRUE

\* str.lower()
Lower(s) == Join([i \in 1..Len(s) |-> LowerChar(CharAt(s, i))])

\* `sub in s`
Contains(s, sub) ==
    \E t \in {s} :
        \E i \in 1..(Len(t) - Len(sub) + 1) : SubSeq(t, i, i + Len(sub) - 1) = sub

\* s.startswith(p)
StartsWith(s, p) == Len(s) >= Len(p) /\ SubSeq(s, 1, Len(p)) = p

----------------------------------------------------------------------------
(* Ordered dictionaries: a Python dict is a sequence of <<key, value>>     *)
(* pairs with distinct keys, in insertion order.                           *)

Keys(d) == [i \in 1..Len(d) |-> d[i][1]]

Has(d, k) == \E i \in 1..Len(d) : d[i][1] = k

Get(d, k) == d[CHOOSE i \in 1..Len(d) : d[i][1] = k][2]

\* d[k] = v: an existing key keeps its position
Put(d, k, v) ==
    IF Has(d, k)
    THEN [i \in 1..Len(d) |-> IF d[i][1] = k THEN <<k, v>> ELSE d[i]]
    ELSE Append(d, <<k, v>>)

----------------------------------------------------------------------------
(* Exceptions and the outcomes of litellm.acompletion *)

NoCause == [type |-> "None", msg |-> ""]

Exc(type, msg) == [type |-> type, msg |-> msg, cause |-> NoCause]

\* raise type(msg) from cause
ExcFrom(type, msg, cause) ==
    [type |-> type, msg |-> msg, cause |-> [type |-> cause.type, msg |-> cause.msg]]

NoError == Exc("None", "")

\* litellm.RateLimitError, whatever its text
TypedRateLimit == Exc("RateLimitError", "quota exceeded")
\* untyped provider errors whose text the loose classifier matches
Http429 == Exc("Exception", "HTTP 429")
RateLimitText == Exc("Exception", "Rate Limit reached")
\* untyped errors the classifier does not match
RateOnly == Exc("Exception", "rate of change")
Timeout == Exc("Exception", "timeout")

Ok(content) == [kind |-> "ok", content |-> content, exc |-> NoError]
Raise(exc) == [kind |-> "raise", content |-> "", exc |-> exc]
Pending == [kind |-> "none", content |-> "", exc |-> NoError]

----------------------------------------------------------------------------
(* safe_completion *)

Attempts == 4
BaseWait == 15
LastRetry == 3

\* mutant: the exponent counts attempts from 1
WaitSecondsFromOne(a) == BaseWait * 2^(a + 1)

\* wait_seconds = 15 * (2**attempt)
WaitSeconds(a) == BaseWait * 2^a

\* mutant: "rate" or "limit" alone classifies as rate-limited
IsRateLimitedEitherWord(message) ==
    Contains(message, "429")
        \/ Contains(message, "rate") \/ Contains(message, "limit")

\* is_rate_limited = "429" in message or ("rate" in message and "limit" in message)
IsRateLimited(message) ==
    Contains(message, "429")
        \/ (Contains(message, "rate") /\ Contains(message, "limit"))

\* Which except clause sleeps and continues: `except RateLimitError` always,
\* `except Exception` when is_rate_limited and attempt < 3; otherwise `raise`.
Retries(exc, a) ==
    IF exc.type = "RateLimitError" THEN TRUE
    ELSE IsRateLimited(Lower(exc.msg)) /\ a < LastRetry

\* mutant: the loop runs one iteration more
InRangeInclusive(a) == a <= Attempts

\* `for attempt in range(4)`: the loop has an iteration for the value a
InRange(a) == a < Attempts

\* raise RuntimeError("Rate limit retries exhausted") from last_error
Exhausted(last) == ExcFrom("RuntimeError", "Rate limit retries exhausted", last)

----------------------------------------------------------------------------
(* The callers' guards around safe_completion *)

ErrorTag == "Error: "

\* f"Error: {e}"
ErrorString(exc) == ErrorTag \o exc.msg

\* mutant: get_fusion without its try/except
GetFusionUnguarded(out) == out

\* get_fusion: the completion text, or the error string
GetFusion(out) ==
    IF out.kind = "ok" THEN Ok(out.content) ELSE Ok(ErrorString(out.exc))

\* mutant: _optimize_prompt without its try/except
OptimizePromptUnguarded(out) == out

\* _optimize_prompt: the completion text, or the error string
OptimizePrompt(out) ==
    IF out.kind = "ok" THEN Ok(out.content) ELSE Ok(ErrorString(out.exc))

----------------------------------------------------------------------------
(* _extract_json_object *)

\* SANY cannot read a grave accent inside a string: the model writes the
\* accent of a code fence as "~", a character no sampled text uses otherwise.
Fence == "~~~"

\* Python's s[i-1:j], which clips the bounds to the text
Slice(s, i, j) ==
    LET a == IF i < 1 THEN 1 ELSE i
        b == IF j > Len(s) THEN Len(s) ELSE j
    IN  IF a > b THEN "" ELSE SubSeq(s, a, b)

\* the character at position i, "" outside the text
At(s, i) == IF i \in 1..Len(s) THEN SubSeq(s, i, i) ELSE ""

IsSpace(ch) == ch \in {" ", "\n", "\t", "\r"}

RECURSIVE SkipSpace(_, _)
\* the first position from i on that holds no whitespace
SkipSpace(s, i) == IF IsSpace(At(s, i)) THEN SkipSpace(s, i + 1) ELSE i

RECURSIVE BackSpace(_, _)
\* the last position up to i that holds no whitespace
BackSpace(s, i) == IF IsSpace(At(s, i)) THEN BackSpace(s, i - 1) ELSE i

\* str.strip()
Strip(s) == Slice(s, SkipSpace(s, 1), BackSpace(s, Len(s)))

EndsWith(s, p) == Len(s) >= Len(p) /\ SubSeq(s, Len(s) - Len(p) + 1, Len(s)) = p

\* re.sub(r"^```(?:json)?\s*", "", text, flags=re.IGNORECASE)
StripLeadingFence(text) ==
    IF StartsWith(text, Fence)
    THEN LET a == Len(Fence) + 1
             b == IF Lower(Slice(text, a, a + 3)) = "json" THEN a + 4 ELSE a
         IN  Slice(text, SkipSpace(text, b), Len(text))
    ELSE text

\* re.sub(r"\s*```$", "", text)
StripTrailingFence(text) ==
    IF EndsWith(text, Fence)
    THEN Slice(text, 1, BackSpace(text, Len(text) - Len(Fence)))
    ELSE text

FirstIndex(s, ch) ==
    IF \E i \in 1..Len(s) : At(s, i) = ch
    THEN CHOOSE i \in 1..Len(s) :
            At(s, i) = ch /\ \A j \in 1..(i - 1) : At(s, j) # ch
    ELSE 0

LastIndex(s, ch) ==
    IF \E i \in 1..Len(s) : At(s, i) = ch
    THEN CHOOSE i \in 1..Len(s) :
            At(s, i) = ch /\ \A j \in (i + 1)..Len(s) : At(s, j) # ch
    ELSE 0

\* start = text.find("{"); end = text.rfind("}"); slice when end > start
SliceBraces(text) ==
    LET start == FirstIndex(text, "{")
        end == LastIndex(text, "}")
    IN  IF start # 0 /\ end # 0 /\ end > start
        THEN SubSeq(text, start, end)
        ELSE text

\* position i lies in a match of ,\s* that a closing } or ] follows
InTrailingComma(s, i) ==
    /\ At(s, SkipSpace(s, i + 1)) \in {"}", "]"}
    /\ \/ At(s, i) = ","
       \/ IsSpace(At(s, i)) /\ At(s, BackSpace(s, i)) = ","

\* re.sub(r",\s*([}\]])", r"\1", text)
DropTrailingCommas(text) ==
    Join([i \in 1..Len(text) |-> IF InTrailingComma(text, i) THEN "" ELSE At(text, i)])

ExtractJsonObject(raw_text) ==
    DropTrailingCommas(
        SliceBraces(Strip(StripTrailingFence(StripLeadingFence(Strip(raw_text))))))

----------------------------------------------------------------------------
(* json.loads, on the JSON the sampled texts use: objects, arrays, strings *)
(* without escape sequences, integers and decimal fractions, and the       *)
(* literals true, false, null, NaN, Infinity and -Infinity.                *)

JNull == [k |-> "null", n |-> 0, s |-> "", items |-> <<>>]
JBool(b) == [k |-> "bool", n |-> IF b THEN 1 ELSE 0, s |-> "", items |-> <<>>]
JInt(n) == [k |-> "int", n |-> n, s |-> "", items |-> <<>>]
\* a float: n is its value truncated toward zero, s is "" or inf, -inf, nan
JFloat(n, special) == [k |-> "float", n |-> n, s |-> special, items |-> <<>>]
JStr(s) == [k |-> "str", n |-> 0, s |-> s, items |-> <<>>]
JList(items) == [k |-> "list", n |-> 0, s |-> "", items |-> items]
JDict(items) == [k |-> "dict", n |-> 0, s |-> "", items |-> items]

Parsed(val, pos) == [ok |-> TRUE, val |-> val, pos |-> pos]
\* json.JSONDecodeError
DecodeError == [ok |-> FALSE, val |-> JNull, pos |-> 0]

DigitChars == "0123456789"
IsDigit(ch) == Len(ch) = 1 /\ Contains(DigitChars, ch)
DigitValue(ch) == (CHOOSE i \in 1..Len(DigitChars) : At(DigitChars, i) = ch) - 1

RECURSIVE SkipDigits(_, _)
SkipDigits(s, i) == IF IsDigit(At(s, i)) THEN SkipDigits(s, i + 1) ELSE i

RECURSIVE DigitsValue(_, _, _)
\* the number written by the digits at positions i..j
DigitsValue(s, i, j) ==
    IF j < i THEN 0 ELSE 10 * DigitsValue(s, i, j - 1) + DigitValue(At(s, j))

StartsWithAt(s, i, p) == Slice(s, i, i + Len(p) - 1) = p

\* -?(0|[1-9]\d*)(\.\d+)? and -Infinity
ParseNumber(s, i) ==
    LET neg == At(s, i) = "-"
        d == IF neg THEN i + 1 ELSE i
        e == IF At(s, d) = "0" THEN d + 1 ELSE SkipDigits(s, d)
        mag == DigitsValue(s, d, e - 1)
        val == IF neg THEN 0 - mag ELSE mag
    IN  IF ~IsDigit(At(s, d))
        THEN IF neg /\ StartsWithAt(s, d, "Infinity")
             THEN Parsed(JFloat(0, "-inf"), d + 8)
             ELSE DecodeError
        ELSE IF At(s, e) = "." /\ IsDigit(At(s, e + 1))
        THEN Parsed(JFloat(val, ""), SkipDigits(s, e + 1))
        ELSE Parsed(JInt(val), e)

\* a string literal starting at the quote at position i
ParseString(s, i) ==
    LET closing == {j \in (i + 1)..Len(s) : At(s, j) = "\""}
        j == CHOOSE x \in closing : \A y \in closing : x <= y
    IN  IF closing = {} THEN DecodeError
        ELSE IF \E x \in (i + 1)..(j - 1) : At(s, x) \in {"\n", "\t", "\r"}
        THEN DecodeError
        ELSE Parsed(JStr(Slice(s, i + 1, j - 1)), j + 1)

RECURSIVE ParseValue(_, _)
RECURSIVE ParseMembers(_, _, _)
RECURSIVE ParseElements(_, _, _)

\* after a member: } ends the object, a comma announces the next member
MemberEnd(s, e, members) ==
    IF At(s, e) = "}" THEN Parsed(JDict(members), e + 1)
    ELSE IF At(s, e) = "," THEN ParseMembers(s, SkipSpace(s, e + 1), members)
    ELSE DecodeError

\* a repeated key keeps its place and takes the later value
MemberValue(s, name, v, members) ==
    IF ~v.ok THEN DecodeError
    ELSE MemberEnd(s, SkipSpace(s, v.pos), Put(members, name, v.val))

MemberColon(s, name, colon, members) ==
    IF At(s, colon) # ":" THEN DecodeError
    ELSE MemberValue(s, name, ParseValue(s, SkipSpace(s, colon + 1)), members)

MemberKey(s, key, members) ==
    IF ~key.ok THEN DecodeError
    ELSE MemberColon(s, key.val.s, SkipSpace(s, key.pos), members)

\* the members of an object from position i, where a key must start
ParseMembers(s, i, members) ==
    IF At(s, i) # "\"" THEN DecodeError
    ELSE MemberKey(s, ParseString(s, i), members)

\* after an element: ] ends the array, a comma announces the next element
ElementEnd(s, e, elements) ==
    IF At(s, e) = "]" THEN Parsed(JList(elements), e + 1)
    ELSE IF At(s, e) = "," THEN ParseElements(s, SkipSpace(s, e + 1), elements)
    ELSE DecodeError

ElementValue(s, v, elements) ==
    IF ~v.ok THEN DecodeError
    ELSE ElementEnd(s, SkipSpace(s, v.pos), Append(elements, v.val))

\* the elements of an array from position i, where a value must start
ParseElements(s, i, elements) == ElementValue(s, ParseValue(s, i), elements)

\* an object from the position after its {
ParseObject(s, i) ==
    IF At(s, i) = "}" THEN Parsed(JDict(<<>>), i + 1)
    ELSE ParseMembers(s, i, <<>>)

\* an array from the position after its [
ParseArray(s, i) ==
    IF At(s, i) = "]" THEN Parsed(JList(<<>>), i + 1)
    ELSE ParseElements(s, i, <<>>)

ParseValue(s, i) ==
    CASE At(s, i) = "{" -> ParseObject(s, SkipSpace(s, i + 1))
      [] At(s, i) = "[" -> ParseArray(s, SkipSpace(s, i + 1))
      [] At(s, i) = "\"" -> ParseString(s, i)
      [] At(s, i) = "-" \/ IsDigit(At(s, i)) -> ParseNumber(s, i)
      [] StartsWithAt(s, i, "null") -> Parsed(JNull, i + 4)
      [] StartsWithAt(s, i, "true") -> Parsed(JBool(TRUE), i + 4)
      [] StartsWithAt(s, i, "false") -> Parsed(JBool(FALSE), i + 5)
      [] StartsWithAt(s, i, "NaN") -> Parsed(JFloat(0, "nan"), i + 3)
      [] StartsWithAt(s, i, "Infinity") -> Parsed(JFloat(0, "inf"), i + 8)
      [] OTHER -> DecodeError

\* after the value only whitespace may follow
WholeText(s, v) ==
    IF v.ok /\ SkipSpace(s, v.pos) = Len(s) + 1 THEN v ELSE DecodeError

\* json.loads: one value, then only whitespace
JsonLoads(s) == WholeText(s, ParseValue(s, SkipSpace(s, 1)))

\* cleaned.replace("'", '"')
ReplaceQuotes(s) ==
    Join([i \in 1..Len(s) |-> IF At(s, i) = "'" THEN "\"" ELSE At(s, i)])

\* the second try: json.loads(cleaned.replace("'", '"')), None when it fails
SecondTry(second) == IF second.ok THEN second.val ELSE JNull

\* the first try: json.loads(cleaned)
FirstTry(cleaned, first) ==
    IF first.ok THEN first.val ELSE SecondTry(JsonLoads(ReplaceQuotes(cleaned)))

ParseCleaned(cleaned) == FirstTry(cleaned, JsonLoads(cleaned))

\* _safe_json_parse: whatever json.loads returns, at the second try with the
\* single quotes replaced; None (JNull) when both tries fail
SafeJsonParse(raw_text) == ParseCleaned(ExtractJsonObject(raw_text))

----------------------------------------------------------------------------
(* get_winner_and_scores *)

DefaultScore == 6

\* default_scores = {name: 6 for name in variant_names}
DefaultScores(names) == [i \in 1..Len(names) |-> <<names[i], DefaultScore>>]

\* mutant: the fallback picks the last variant
FallbackWinnerLast(names, otherwise) ==
    IF Len(names) > 0 THEN names[Len(names)] ELSE otherwise

\* variant_names[0] if variant_names else <otherwise>
FallbackWinner(names, otherwise) ==
    IF Len(names) > 0 THEN names[1] ELSE otherwise

\* whether int(text) accepts the text: an optional sign and digits,
\* surrounding whitespace ignored
IsIntegerLiteral(text) ==
    LET t == Strip(text)
        d == IF At(t, 1) \in {"+", "-"} THEN 2 ELSE 1
    IN  d <= Len(t) /\ SkipDigits(t, d) = Len(t) + 1

IntegerLiteralValue(text) ==
    LET t == Strip(text)
        d == IF At(t, 1) \in {"+", "-"} THEN 2 ELSE 1
        mag == DigitsValue(t, d, Len(t))
    IN  IF At(t, 1) = "-" THEN 0 - mag ELSE mag

Converted(n) == [res |-> "int", n |-> n]
\* TypeError or ValueError: the entry is skipped
NotConverted == [res |-> "skip", n |-> 0]
\* OverflowError, which the inner except does not catch
Overflow == [res |-> "overflow", n |-> 0]

\* int(value)
IntOf(v) ==
    CASE v.k \in {"int", "bool"} -> Converted(v.n)
      [] v.k = "float" ->
            IF v.s = "" THEN Converted(v.n)
            ELSE IF v.s = "nan" THEN NotConverted
            ELSE Overflow
      [] v.k = "str" ->
            IF IsIntegerLiteral(v.s) THEN Converted(IntegerLiteralValue(v.s))
            ELSE NotConverted
      [] OTHER -> NotConverted

\* parsed.get(key, default)
DictGet(parsed, key, default) ==
    IF Has(parsed.items, key) THEN Get(parsed.items, key) ELSE default

RECURSIVE NormalizeFrom(_, _, _)
\* the loop over scores_raw.items(): the scores so far, or the
\* OverflowError that ended the loop
NormalizeFrom(raw, i, scores) ==
    IF i > Len(raw) THEN [raised |-> FALSE, scores |-> scores]
    ELSE LET r == IntOf(raw[i][2]) IN
         CASE r.res = "int" -> NormalizeFrom(raw, i + 1, Put(scores, raw[i][1], r.n))
           [] r.res = "skip" -> NormalizeFrom(raw, i + 1, scores)
           [] OTHER -> [raised |-> TRUE, scores |-> scores]

RECURSIVE FillDefaultsFrom(_, _, _)
FillDefaultsFrom(names, i, scores) ==
    IF i > Len(names) THEN scores
    ELSE FillDefaultsFrom(names, i + 1,
            IF Has(scores, names[i]) THEN scores
            ELSE Append(scores, <<names[i], DefaultScore>>))

\* mutant: the variants the judge left out get no entry
FillDefaultsNone(names, scores) == scores

\* for name in variant_names: if name not in scores: scores[name] = 6
FillDefaults(names, scores) == FillDefaultsFrom(names, 1, scores)

\* max(scores.items(), key=lambda kv: kv[1])[0]: the first maximal entry
MaxKey(scores) ==
    scores[CHOOSE i \in 1..Len(scores) :
              /\ \A j \in 1..Len(scores) : scores[j][2] <= scores[i][2]
              /\ \A j \in 1..(i - 1) : scores[j][2] < scores[i][2]][1]

\* isinstance(winner, str) and winner in results; otherwise the maximum
ResolveWinner(claimed, variants, scores) ==
    IF claimed.k = "str" /\ Has(variants, claimed.s) THEN claimed.s
    ELSE IF Len(scores) > 0 THEN MaxKey(scores)
    ELSE "Unknown"

Judgment(winner, scores) == [winner |-> winner, scores |-> scores]

Returned(value) == [kind |-> "ok", exc |-> NoError, value |-> value]
Raised(exc) == [kind |-> "raise", exc |-> exc, value |-> Judgment("", <<>>)]

\* the loop over scores_raw.items() when scores_raw is a dict
Normalize(scores_raw) ==
    IF scores_raw.k = "dict" THEN NormalizeFrom(scores_raw.items, 1, <<>>)
    ELSE [raised |-> FALSE, scores |-> <<>>]

\* with the scores complete: the winner check and the return
JudgeWinner(variants, claimed, scores) ==
    Returned(Judgment(ResolveWinner(claimed, variants, scores), scores))

\* with the judge's scores converted: the defaults
JudgeScores(variants, claimed, normal) ==
    IF normal.raised
    THEN Raised(Exc("OverflowError", "cannot convert float infinity to integer"))
    ELSE JudgeWinner(variants, claimed, FillDefaults(Keys(variants), normal.scores))

\* with the text parsed: the fallback for a non-object, or the scores
JudgeParsed(variants, parsed) ==
    IF parsed.k # "dict"
    THEN Returned(Judgment(FallbackWinner(Keys(variants), "Unknown"),
                           DefaultScores(Keys(variants))))
    ELSE JudgeScores(variants, DictGet(parsed, "winner", JNull),
                     Normalize(DictGet(parsed, "scores", JDict(<<>>))))

\* the body of get_winner_and_scores' try block: the pair it returns, or
\* the exception that leaves it
JudgeBody(variants, out) ==
    IF out.kind = "raise" THEN Raised(out.exc)
    ELSE JudgeParsed(variants, SafeJsonParse(out.content))

\* the outer except: any exception is answered with the fallback pair
JudgeGuard(variants, body) ==
    IF body.kind = "raise"
    THEN Returned(Judgment(FallbackWinner(Keys(variants), ErrorString(body.exc)),
                           DefaultScores(Keys(variants))))
    ELSE body

\* get_winner_and_scores after its await
WinnerAndScores(variants, out) == JudgeGuard(variants, JudgeBody(variants, out))

\* run_optimizers' return value on its normal path
VariantMapping(coding, research, concise, structured) ==
    << <<"Coding", coding>>, <<"Research", research>>,
       <<"Concise", concise>>, <<"Structured", structured>> >>

\* run_optimizers' outer except: every category gets the same error string
FallbackMapping(exc) ==
    VariantMapping(ErrorString(exc), ErrorString(exc),
                   ErrorString(exc), ErrorString(exc))

Cooldown == 2

----------------------------------------------------------------------------
(* _normalize_groq_model *)

ProviderPrefix == "groq/"

\* the prefix is added unless the trimmed name starts with it
WithProviderPrefix(model_name) ==
    IF StartsWith(model_name, ProviderPrefix) THEN model_name
    ELSE ProviderPrefix \o model_name

\* mutant: the prefix is added without looking for one
NormalizeGroqModelAlways(m) == ProviderPrefix \o Strip(m)

NormalizeGroqModel(m) == WithProviderPrefix(Strip(m))

----------------------------------------------------------------------------
(* Inputs *)

Batch1 == {"Coding", "Research"}
Batch2 == {"Concise", "Structured"}
Tasks == Batch1 \cup Batch2 \cup {"Judge", "Fuse"}

Ops == {"run_optimizers", "get_winner_and_scores", "get_fusion"}

\* the variant mappings handed to the judge and the fuser
FourVariants ==
    << <<"Coding", "text c">>, <<"Research", "text r">>,
       <<"Concise", "text s">>, <<"Structured", "text t">> >>
TwoVariants == << <<"Research", "text r">>, <<"Coding", "Error: timeout">> >>
VariantInputs == {FourVariants, TwoVariants, <<>>}

\* texts the judge model may answer with
JudgeWellFormed ==
    "{\"scores\": {\"Coding\": 9, \"Research\": 8, \"Concise\": 7, \"Structured\": 8}, \"winner\": \"Coding\", \"reason\": \"clear\"}"
JudgeStrangers ==
    "{\"scores\": {\"Bogus\": 10, \"Research\": 4}, \"winner\": \"Nope\"}"
JudgeOutOfRange ==
    "{\"scores\": {\"Coding\": 99, \"Research\": 0, \"Concise\": -2}, \"winner\": \"Coding\"}"
JudgeUncoercible ==
    "{\"scores\": {\"Coding\": \"x\", \"Research\": null, \"Concise\": 7.9, \"Structured\": true}}"
JudgeInfinity ==
    "{\"scores\": {\"Research\": 9, \"Coding\": Infinity}, \"winner\": \"Research\"}"
JudgeTextScores ==
    "{\"scores\": {\"Coding\": NaN, \"Research\": [7], \"Concise\": \"8\", \"Structured\": \" 7 \"}, \"winner\": 5}"
JudgeUnderdog ==
    "{\"scores\": {\"Coding\": 3, \"Research\": 9}, \"winner\": \"Coding\"}"
JudgeTie ==
    "{\"scores\": {\"Structured\": 6, \"Research\": 6}, \"winner\": \"coding\"}"
JudgeFenced ==
    "~~~json\n{\"scores\": {\"Research\": 10,}, \"winner\": \"Research\",}\n~~~"
JudgeSingleQuotes ==
    "Sure! {'scores': {'Concise': 2}, 'winner': 'Concise'} thanks"
JudgeScoresList ==
    "{\"scores\": [1], \"winner\": \"Research\"}"
JudgeRepeatedKey ==
    "{\"scores\": {\"Coding\": 9, \"Research\": 4, \"Coding\": \"n/a\"}}"
JudgeEmptyObject ==
    "{}"
JudgeNumber ==
    "42"
JudgeList ==
    "[{\"winner\": \"Coding\"}]"
JudgeNull ==
    "null"
JudgeProse ==
    "I cannot decide."
JudgeBroken ==
    "{\"scores\": {\"Coding\": 9"
JudgeResponses ==
    {JudgeWellFormed,
     JudgeStrangers,
     JudgeOutOfRange,
     JudgeUncoercible,
     JudgeInfinity,
     JudgeTextScores,
     JudgeUnderdog,
     JudgeTie,
     JudgeFenced,
     JudgeSingleQuotes,
     JudgeScoresList,
     JudgeRepeatedKey,
     JudgeEmptyObject,
     JudgeNumber,
     JudgeList,
     JudgeNull,
     JudgeProse,
     JudgeBroken}

\* what the provider may answer to one attempt of a task's call
Completions(c) ==
    IF c = "Fuse" THEN {"fused prompt"}
    ELSE IF c = "Judge" THEN JudgeResponses
    ELSE {Lower(c) \o " prompt"}

GatewayErrors(c) ==
    IF c \in {"Judge", "Fuse"}
    THEN {TypedRateLimit, Http429, RateLimitText, RateOnly, Timeout}
    ELSE {TypedRateLimit, Http429, Timeout}

GatewayOutcomes(c) ==
    {Ok(t) : t \in Completions(c)} \cup {Raise(e) : e \in GatewayErrors(c)}

----------------------------------------------------------------------------
(* State machine *)

NotJudged == [winner |-> "", scores |-> <<>>]

Init ==
    /\ op \in Ops
    /\ results \in VariantInputs
    /\ op = "run_optimizers" => results = <<>>
    /\ phase = "start"
    /\ pc = [c \in Tasks |-> "idle"]
    /\ attempt = [c \in Tasks |-> 0]
    /\ last_error = [c \in Tasks |-> NoError]
    /\ sleeps = [c \in Tasks |-> <<>>]
    /\ history = [c \in Tasks |-> <<>>]
    /\ outcome = [c \in Tasks |-> Pending]
    /\ slot = [c \in Batch1 \cup Batch2 |-> Pending]
    /\ cooldowns = <<>>
    /\ judged = NotJudged
    /\ fused = ""
    /\ model = ""
    /\ normalized = <<>>
    /\ json_text = ""
    /\ json_value = JNull

\* how an entry point ends: with a value, or with an exception
Ending(r) == IF r.kind = "ok" THEN "returned" ELSE "raised"

FusionEnds(r) ==
    /\ fused' = r.content
    /\ phase' = Ending(r)
    /\ UNCHANGED <<judged, slot>>

JudgeEnds(r) ==
    /\ judged' = r.value
    /\ phase' = Ending(r)
    /\ UNCHANGED <<fused, slot>>

\* the caller's code that runs, without suspending, once its call is over
Continue(c, out) ==
    CASE c = "Fuse" -> FusionEnds(GetFusion(out))
      [] c = "Judge" -> JudgeEnds(WinnerAndScores(results, out))
      [] OTHER ->
            /\ slot' = [slot EXCEPT ![c] = OptimizePrompt(out)]
            /\ UNCHANGED <<phase, judged, fused>>

\* safe_completion returns or raises
Finish(c, out) ==
    /\ outcome' = [outcome EXCEPT ![c] = out]
    /\ pc' = [pc EXCEPT ![c] = "done"]
    /\ Continue(c, out)

\* get_fusion up to its await of safe_completion
StartFusion ==
    /\ op = "get_fusion"
    /\ phase = "start"
    /\ phase' = "await"
    /\ pc' = [pc EXCEPT !["Fuse"] = "call"]
    /\ UNCHANGED <<helpers, op, results, attempt, last_error, sleeps, history, outcome,
                   slot, cooldowns, judged, fused>>

\* run_optimizers up to its first await of asyncio.gather
StartOptimizers ==
    /\ op = "run_optimizers"
    /\ phase = "start"
    /\ phase' = "batch1"
    /\ pc' = [c \in Tasks |-> IF c \in Batch1 THEN "call" ELSE pc[c]]
    /\ UNCHANGED <<helpers, op, results, attempt, last_error, sleeps, history, outcome,
                   slot, cooldowns, judged, fused>>

\* the frames of a batch's finished coroutines are gone
Release(batch) ==
    /\ pc' = [c \in Tasks |-> IF c \in batch THEN "idle" ELSE pc[c]]
    /\ attempt' = [c \in Tasks |-> IF c \in batch THEN 0 ELSE attempt[c]]
    /\ last_error' = [c \in Tasks |-> IF c \in batch THEN NoError ELSE last_error[c]]
    /\ sleeps' = [c \in Tasks |-> IF c \in batch THEN <<>> ELSE sleeps[c]]
    /\ history' = [c \in Tasks |-> IF c \in batch THEN <<>> ELSE history[c]]

\* mutant: the wait ends with the first task that is over
GatherFirst(batch, here, next) ==
    /\ op = "run_optimizers"
    /\ phase = here
    /\ \E c \in batch : slot[c].kind = "ok"
    /\ phase' = next
    /\ cooldowns' = Append(cooldowns, Cooldown)
    /\ Release(batch)
    /\ UNCHANGED <<helpers, op, results, outcome, slot, judged, fused>>

\* `await asyncio.gather(a, b)` resumes run_optimizers: with both results
\* once both tasks are over, or with the exception of a task that raised,
\* which the outer except turns into the fallback mapping. Then the
\* cooldown sleep starts.
Gather(batch, here, next) ==
    /\ op = "run_optimizers"
    /\ phase = here
    /\ \/ /\ \A c \in batch : slot[c].kind = "ok"
          /\ phase' = next
          /\ cooldowns' = Append(cooldowns, Cooldown)
          /\ UNCHANGED results
       \/ /\ \E c \in batch :
                /\ slot[c].kind = "raise"
                /\ results' = FallbackMapping(slot[c].exc)
          /\ phase' = "returned"
          /\ UNCHANGED cooldowns
    /\ Release(batch)
    /\ UNCHANGED <<helpers, op, outcome, slot, judged, fused>>

\* the first asyncio.sleep(2) is over: the second batch is dispatched
StartBatch2 ==
    /\ op = "run_optimizers"
    /\ phase = "cooldown1"
    /\ phase' = "batch2"
    /\ pc' = [c \in Tasks |-> IF c \in Batch2 THEN "call" ELSE pc[c]]
    /\ UNCHANGED <<helpers, op, results, attempt, last_error, sleeps, history, outcome,
                   slot, cooldowns, judged, fused>>

\* the second asyncio.sleep(2) is over: run_optimizers returns the mapping
ReturnVariants ==
    /\ op = "run_optimizers"
    /\ phase = "cooldown2"
    /\ phase' = "returned"
    /\ results' = VariantMapping(slot["Coding"].content, slot["Research"].content,
                                 slot["Concise"].content, slot["Structured"].content)
    /\ UNCHANGED <<helpers, op, pc, attempt, last_error, sleeps, history, outcome,
                   slot, cooldowns, judged, fused>>

\* get_winner_and_scores up to its await of safe_completion
StartJudge ==
    /\ op = "get_winner_and_scores"
    /\ phase = "start"
    /\ phase' = "await"
    /\ pc' = [pc EXCEPT !["Judge"] = "call"]
    /\ UNCHANGED <<helpers, op, results, attempt, last_error, sleeps, history, outcome,
                   slot, cooldowns, judged, fused>>

\* mutant: a sleeping call holds the event loop (time.sleep)
RunnableWhenNoneSleeps(c) == pc[c] = "call" /\ \A d \in Tasks : pc[d] # "sleep"

\* the call awaits litellm.acompletion: the event loop resumes it with the
\* answer, whatever the other coroutines await
Runnable(c) == pc[c] = "call"

\* One iteration of the retry loop: litellm.acompletion answers attempt
\* number attempt[c]; the loop returns, raises, or starts its backoff sleep.
Response(c) ==
    /\ Runnable(c)
    /\ \E o \in GatewayOutcomes(c) :
        /\ history' = [history EXCEPT ![c] = Append(@, o)]
        /\ IF o.kind = "ok"
           THEN /\ Finish(c, o)
                /\ UNCHANGED <<last_error, sleeps>>
           ELSE IF Retries(o.exc, attempt[c])
           THEN /\ last_error' = [last_error EXCEPT ![c] = o.exc]
                /\ sleeps' = [sleeps EXCEPT ![c] = Append(@, WaitSeconds(attempt[c]))]
                /\ pc' = [pc EXCEPT ![c] = "sleep"]
                /\ UNCHANGED <<outcome, phase, slot, judged, fused>>
           ELSE /\ Finish(c, o)
                /\ UNCHANGED <<last_error, sleeps>>
    /\ UNCHANGED <<helpers, op, results, attempt, cooldowns>>

\* asyncio.sleep(wait_seconds) is over: `continue`, and either the next
\* attempt starts or range(4) is used up and the loop falls through to
\* the final raise.
Wake(c) ==
    /\ pc[c] = "sleep"
    /\ attempt' = [attempt EXCEPT ![c] = @ + 1]
    /\ IF InRange(attempt[c] + 1)
       THEN /\ pc' = [pc EXCEPT ![c] = "call"]
            /\ UNCHANGED <<outcome, phase, slot, judged, fused>>
       ELSE Finish(c, Raise(Exhausted(last_error[c])))
    /\ UNCHANGED <<helpers, op, results, last_error, sleeps, history, cooldowns>>

Next ==
    \/ StartOptimizers
    \/ Gather(Batch1, "batch1", "cooldown1")
    \/ StartBatch2
    \/ Gather(Batch2, "batch2", "cooldown2")
    \/ ReturnVariants
    \/ StartJudge
    \/ StartFusion
    \/ \E c \in Tasks : Response(c)
    \/ \E c \in Tasks : Wake(c)

Spec == Init /\ [][Next]_vars

\* The event loop resumes every coroutine that can run, every timer of
\* asyncio.sleep fires, and the gateway answers every attempt.
FairSpec == Spec /\ WF_vars(Next)

----------------------------------------------------------------------------
(* The two pure helpers, run on their own *)

MaxPieces == 3

\* model identifiers: up to MaxPieces pieces, each blank space, the provider
\* prefix, a part of it, or a letter
ModelPieces == {" ", "\t", "groq/", "groq", "/", "M"}
ModelInputs(most) ==
    {Join(p) : p \in UNION {[1..n -> ModelPieces] : n \in 0..most}}

\* texts handed to _safe_json_parse: the judge's answers and texts without
\* any brace
BraceFreeTexts ==
    {"", "  ", "42", "-7", "3.5", "true", "null", "\"text\"", "[1, 2]", "[]",
     "'x'", "~~~json\n[1,]\n~~~", "no json here"}
ParseInputs == JudgeResponses \cup BraceFreeTexts

Helpers == {"_normalize_groq_model", "_safe_json_parse"}

InitHelpers ==
    /\ op \in Helpers
    /\ model \in (IF op = "_normalize_groq_model" THEN ModelInputs(MaxPieces) ELSE {""})
    /\ json_text \in (IF op = "_safe_json_parse" THEN ParseInputs ELSE {""})
    /\ normalized = <<>>
    /\ json_value = JNull
    /\ results = <<>>
    /\ phase = "start"
    /\ pc = [c \in Tasks |-> "idle"]
    /\ attempt = [c \in Tasks |-> 0]
    /\ last_error = [c \in Tasks |-> NoError]
    /\ sleeps = [c \in Tasks |-> <<>>]
    /\ history = [c \in Tasks |-> <<>>]
    /\ outcome = [c \in Tasks |-> Pending]
    /\ slot = [c \in Batch1 \cup Batch2 |-> Pending]
    /\ cooldowns = <<>>
    /\ judged = NotJudged
    /\ fused = ""

backend == <<op, results, pc, attempt, last_error, sleeps, history,
             outcome, slot, cooldowns, judged, fused>>

\* _normalize_groq_model(model)
NormalizeModel ==
    /\ op = "_normalize_groq_model"
    /\ phase = "start"
    /\ normalized' = <<NormalizeGroqModel(model)>>
    /\ phase' = "returned"
    /\ UNCHANGED <<backend, model, json_text, json_value>>

\* the identifier a caller got back is normalized again, as backend.py does
\* with the identifier app.py has prefixed
NormalizeAgain ==
    /\ op = "_normalize_groq_model"
    /\ phase = "returned"
    /\ Len(normalized) = 1
    /\ normalized' = Append(normalized, NormalizeGroqModel(normalized[1]))
    /\ UNCHANGED <<backend, phase, model, json_text, json_value>>

\* _safe_json_parse(raw_text)
ParseText ==
    /\ op = "_safe_json_parse"
    /\ phase = "start"
    /\ json_value' = SafeJsonParse(json_text)
    /\ phase' = "returned"
    /\ UNCHANGED <<backend, model, normalized, json_text>>

NextHelpers == NormalizeModel \/ NormalizeAgain \/ ParseText

SpecHelpers == InitHelpers /\ [][NextHelpers]_vars

----------------------------------------------------------------------------
(* Properties of the retry controller *)

\* "rate-limited" as the specification classifies a failure: the typed
\* error, or a text that lower-cased holds "429" or both "rate" and "limit"
RateLimitedFailure(o) ==
    /\ o.kind = "raise"
    /\ \/ o.exc.type = "RateLimitError"
       \/ Contains(Lower(o.exc.msg), "429")
       \/ (Contains(Lower(o.exc.msg), "rate") /\ Contains(Lower(o.exc.msg), "limit"))

OtherFailure(o) == o.kind = "raise" /\ ~RateLimitedFailure(o)

\* the call of task c failed on each of its 4 attempts with a rate-limited error
AllAttemptsRateLimited(c) ==
    /\ Len(history[c]) = 4
    /\ \A i \in 1..4 : RateLimitedFailure(history[c][i])

\* C1: a call whose 4 attempts all fail rate-limited ends with
\* RuntimeError("Rate limit retries exhausted") caused by the last error
\* observed, never with the provider's own error.
C1_ExhaustionRaisesRetriesExhausted ==
    \A c \in Tasks :
        (AllAttemptsRateLimited(c) /\ pc[c] = "done")
            => /\ outcome[c].kind = "raise"
               /\ outcome[c].exc.type = "RuntimeError"
               /\ outcome[c].exc.msg = "Rate limit retries exhausted"
               /\ outcome[c].exc.cause.type = history[c][4].exc.type
               /\ outcome[c].exc.cause.msg = history[c][4].exc.msg

\* the call of task c failed rate-limited k times and then succeeded
FailedThenSucceeded(c, k) ==
    /\ Len(history[c]) = k + 1
    /\ \A i \in 1..k : RateLimitedFailure(history[c][i])
    /\ history[c][k + 1].kind = "ok"

\* C2: after k rate-limited failures and a success on attempt k (k in 0..3)
\* safe_completion returns that success and has slept exactly 15*2^i seconds
\* for i = 0..k-1, in that order.
C2_BackoffSequenceThenSuccess ==
    \A c \in Tasks : \A k \in 0..3 :
        FailedThenSucceeded(c, k)
            => /\ pc[c] = "done"
               /\ outcome[c] = history[c][k + 1]
               /\ sleeps[c] = [i \in 1..k |-> 15 * 2^(i - 1)]

C2_Witness ==
    \E c \in Tasks :
        /\ FailedThenSucceeded(c, 3)
        /\ history[c][2].exc.type = "Exception"
        /\ sleeps[c] = <<15, 30, 60>>
        /\ outcome[c].kind = "ok"

\* C3: a failure that is not rate-limited is the call's last attempt: it is
\* raised unchanged, no sleep follows it (one sleep per earlier attempt, none
\* when it is the first) and the wrapped call is not attempted again.
C3_OtherErrorPropagatesAtOnce ==
    \A c \in Tasks : \A i \in 1..Len(history[c]) :
        OtherFailure(history[c][i])
            => /\ i = Len(history[c])
               /\ pc[c] = "done"
               /\ outcome[c] = history[c][i]
               /\ Len(sleeps[c]) = i - 1

C3_Witness ==
    \E c \in Tasks :
        /\ history[c] = <<Raise(RateOnly)>>
        /\ pc[c] = "done"
        /\ outcome[c] = Raise(RateOnly)
        /\ sleeps[c] = <<>>

\* C13: a backoff sleep happens only after a rate-limited failure that
\* leaves an attempt to make: at most 3 sleeps per call, never more sleeps
\* than rate-limited failures, and no sleep after the 4th attempt.
C13_SleepOnlyBeforeARetry ==
    \A c \in Tasks :
        /\ Len(sleeps[c]) <= 3
        /\ Len(sleeps[c])
              <= Cardinality({i \in 1..Len(history[c]) : RateLimitedFailure(history[c][i])})
        /\ pc[c] = "sleep" => Len(history[c]) < 4

Running(c) == pc[c] \in {"call", "sleep"}

\* every call's own counter counts its own attempts, from 0, and stays below 4
CountsOwnAttempts ==
    \A c \in Tasks :
        /\ Len(history[c]) <= 4
        /\ attempt[c] \in 0..4
        /\ pc[c] = "idle" => attempt[c] = 0
        /\ pc[c] = "call" => attempt[c] = Len(history[c])
        /\ pc[c] = "sleep" => attempt[c] = Len(history[c]) - 1

\* C14: a call makes at most 4 attempts, counted from 0 by a counter of its
\* own, and every call comes to its end (a return or a raise): from some
\* point on no call is running.
C14_AtMostFourAttemptsThenEnds ==
    /\ []CountsOwnAttempts
    /\ <>[](\A c \in Tasks : ~Running(c))

C14_Witness ==
    /\ pc["Coding"] = "done"
    /\ Len(history["Coding"]) = 4
    /\ outcome["Coding"].kind = "raise"
    /\ pc["Research"] = "call"
    /\ attempt["Research"] = 0
    /\ history["Research"] = <<>>

----------------------------------------------------------------------------
(* Properties of the entry points *)

FanOutReturned == op = "run_optimizers" /\ phase = "returned"
JudgeReturned == op = "get_winner_and_scores" /\ phase = "returned"
FusionReturned == op = "get_fusion" /\ phase = "returned"

\* C4: whatever the gateway answers, no entry point ends with an exception,
\* and the mapping run_optimizers returns has exactly the keys Coding,
\* Research, Concise and Structured, each once.
C4_EntryPointsReturnAValue ==
    /\ phase # "raised"
    /\ FanOutReturned
        => Keys(results) = <<"Coding", "Research", "Concise", "Structured">>

C4_Witness ==
    /\ FanOutReturned
    /\ outcome["Coding"] = Raise(Timeout)
    /\ outcome["Research"].exc.type = "RuntimeError"
    /\ outcome["Concise"] = Raise(Http429)
    /\ outcome["Structured"].kind = "ok"
    /\ Len(results) = 4

\* C5: in the mapping run_optimizers returns, a category's value is decided
\* by that category's own call alone: its text when the call succeeded, a
\* string starting with "Error: " when it failed; every call ran to its end;
\* and when exactly one call failed, the error string is in its slot only.
C5_FanOutIsolation ==
    FanOutReturned =>
        /\ \A c \in Batch1 \cup Batch2 :
            /\ outcome[c].kind \in {"ok", "raise"}
            /\ outcome[c].kind = "ok" => Get(results, c) = outcome[c].content
            /\ outcome[c].kind = "raise" => StartsWith(Get(results, c), "Error: ")
        /\ \A f \in Batch1 \cup Batch2 :
            (/\ outcome[f].kind = "raise"
             /\ \A c \in (Batch1 \cup Batch2) \ {f} : outcome[c].kind = "ok")
                => \A c \in (Batch1 \cup Batch2) \ {f} :
                        ~StartsWith(Get(results, c), "Error: ")

C5_Witness ==
    /\ FanOutReturned
    /\ outcome["Research"].kind = "raise"
    /\ outcome["Research"].exc.type = "RuntimeError"
    /\ \A c \in {"Coding", "Concise", "Structured"} :
            outcome[c].kind = "ok" /\ Get(results, c) = outcome[c].content
    /\ Get(results, "Research") = "Error: Rate limit retries exhausted"

\* the call of task c has begun / has come to its end
Started(c) == pc[c] # "idle" \/ outcome[c] # Pending
Finished(c) == ~Running(c) /\ outcome[c] # Pending /\ slot[c] # Pending

\* C15: a second-batch call has begun only when both first-batch calls are
\* over and the first 2-second cooldown has elapsed; the second 2-second
\* cooldown begins only when both second-batch calls are over, and the
\* mapping is returned after both cooldowns.
C15_BatchOrdering ==
    /\ \A c \in Batch2 :
        Started(c) => /\ \A d \in Batch1 : Finished(d)
                      /\ Len(cooldowns) >= 1
                      /\ cooldowns[1] = 2
                      /\ phase \notin {"start", "batch1", "cooldown1"}
    /\ Len(cooldowns) = 2 => \A c \in Batch2 : Finished(c)
    /\ FanOutReturned => cooldowns = <<2, 2>>

C15_Witness ==
    /\ phase = "batch2"
    /\ pc["Concise"] = "sleep"
    /\ pc["Structured"] = "call"
    /\ outcome["Coding"].exc.type = "RuntimeError"
    /\ outcome["Research"].kind = "ok"
    /\ cooldowns = <<2>>

\* C16: while one call of a batch is in its backoff sleep, the other call of
\* the batch can get its answer and come to its end (or wake from its own
\* sleep); and the batch is over only when both calls are.
C16_SleepDoesNotBlockTheBatch ==
    /\ \A batch \in {Batch1, Batch2} : \A a \in batch : \A b \in batch \ {a} :
        pc[a] = "sleep" =>
            /\ pc[b] = "call" => ENABLED (Response(b) /\ pc'[b] = "done")
            /\ pc[b] = "sleep" => ENABLED Wake(b)
    /\ phase \in {"cooldown1", "batch2", "cooldown2"} => \A c \in Batch1 : Finished(c)
    /\ (phase = "cooldown2" \/ FanOutReturned) => \A c \in Batch1 \cup Batch2 : Finished(c)

C16_Witness ==
    /\ phase = "batch1"
    /\ pc["Coding"] = "sleep"
    /\ Len(sleeps["Coding"]) = 1
    /\ pc["Research"] = "call"
    /\ attempt["Research"] = 2

----------------------------------------------------------------------------
(* Properties of the judge *)

\* C6: for a non-empty variant mapping, the winner get_winner_and_scores
\* returns is a key of the variant mapping.
C6_WinnerIsAVariant ==
    (JudgeReturned /\ Len(results) > 0) => Has(results, judged.winner)

\* C7: every score get_winner_and_scores returns is an integer in 1..10.
C7_ScoresWithinOneToTen ==
    JudgeReturned =>
        \A i \in 1..Len(judged.scores) : judged.scores[i][2] \in 1..10

\* the judge's answer as an object, when its call succeeded and its text
\* yields one
JudgeAnswered ==
    /\ outcome["Judge"].kind = "ok"
    /\ SafeJsonParse(outcome["Judge"].content).k = "dict"

\* the judge's answer holds a score entry for the name
JudgeScored(name) ==
    /\ JudgeAnswered
    /\ Has(SafeJsonParse(outcome["Judge"].content).items, "scores")
    /\ Get(SafeJsonParse(outcome["Judge"].content).items, "scores").k = "dict"
    /\ Has(Get(SafeJsonParse(outcome["Judge"].content).items, "scores").items, name)

GivenScore(name) ==
    Get(Get(SafeJsonParse(outcome["Judge"].content).items, "scores").items, name)

\* the values Python's int() turns into an integer
CoercesToInteger(v) ==
    \/ v.k \in {"int", "bool"}
    \/ v.k = "float" /\ v.s = ""
    \/ v.k = "str" /\ IsIntegerLiteral(v.s)

\* C8: the returned scores have an entry for every variant name, and a
\* variant the judge left out, or scored with a value that does not coerce
\* to an integer, has the score 6.
C8_ScoresCoverEveryVariant ==
    JudgeReturned =>
        \A i \in 1..Len(results) :
            /\ Has(judged.scores, results[i][1])
            /\ (~JudgeScored(results[i][1])
                    \/ ~CoercesToInteger(GivenScore(results[i][1])))
                => Get(judged.scores, results[i][1]) = 6

C8_Witness ==
    /\ JudgeReturned
    /\ results = FourVariants
    /\ outcome["Judge"] = Ok(JudgeUncoercible)
    /\ judged.scores =
        << <<"Concise", 7>>, <<"Structured", 1>>, <<"Coding", 6>>, <<"Research", 6>> >>

\* C9: when the judge call fails, or its text yields no JSON object, the
\* winner is the first variant name of the (non-empty) variant mapping and
\* every variant name has the score 6.
C9_FallbackOnUnusableAnswer ==
    (JudgeReturned /\ Len(results) > 0 /\ ~JudgeAnswered)
        => /\ judged.winner = results[1][1]
           /\ judged.scores = [i \in 1..Len(results) |-> <<results[i][1], 6>>]

C9_Witness ==
    /\ JudgeReturned
    /\ results = TwoVariants
    /\ outcome["Judge"] = Ok(JudgeNumber)
    /\ judged = [winner |-> "Research",
                 scores |-> << <<"Research", 6>>, <<"Coding", 6>> >>]

\* the winner the judge's answer names (None when it names none)
ClaimedWinner == DictGet(SafeJsonParse(outcome["Judge"].content), "winner", JNull)

\* the judge answered with an object whose winner is no variant name
WinnerRejected ==
    /\ JudgeReturned
    /\ JudgeAnswered
    /\ ClaimedWinner.k # "str" \/ ~Has(results, ClaimedWinner.s)

\* the returned score of the name is the judge's own
ModelScored(name) == JudgeScored(name) /\ CoercesToInteger(GivenScore(name))

\* position i holds the first maximum of the scores
FirstMaximum(scores, i) ==
    /\ \A j \in 1..Len(scores) : scores[j][2] <= scores[i][2]
    /\ \A j \in 1..(i - 1) : scores[j][2] < scores[i][2]

\* C17: when the judge's object names no variant as the winner, the returned
\* winner is the first key, in insertion order (names the judge scored, then
\* the variants filled with the default), that has the maximum returned
\* score; with no scores at all it is "Unknown".
C17_WinnerRecomputedAsFirstMaximum ==
    WinnerRejected =>
        /\ Len(judged.scores) = 0 => judged.winner = "Unknown"
        /\ Len(judged.scores) > 0 =>
                \E i \in 1..Len(judged.scores) :
                    /\ judged.scores[i][1] = judged.winner
                    /\ FirstMaximum(judged.scores, i)
        /\ \A i \in 1..Len(judged.scores) : \A j \in (i + 1)..Len(judged.scores) :
                ModelScored(judged.scores[j][1]) => ModelScored(judged.scores[i][1])

\* C18: when the judge's object names a variant as the winner, that name is
\* the returned winner, whatever the scores are.
C18_ValidWinnerIsKept ==
    (/\ JudgeReturned
     /\ JudgeAnswered
     /\ ClaimedWinner.k = "str"
     /\ Has(results, ClaimedWinner.s))
        => judged.winner = ClaimedWinner.s

\* C19: the returned scores have exactly the variant names as their keys.
C19_ScoreKeysAreTheVariantNames ==
    JudgeReturned =>
        /\ \A i \in 1..Len(results) : Has(judged.scores, results[i][1])
        /\ \A i \in 1..Len(judged.scores) : Has(results, judged.scores[i][1])

----------------------------------------------------------------------------
(* Properties of the fuser *)

\* C10: when the fuse call fails rate-limited on all 4 attempts, get_fusion
\* returns a string that starts with "Error: " and contains "retries".
C10_FusionExhaustionSaysRetries ==
    (FusionReturned /\ AllAttemptsRateLimited("Fuse"))
        => /\ StartsWith(fused, "Error: ")
           /\ Contains(fused, "retries")

----------------------------------------------------------------------------
(* Properties of the helpers *)

\* a bare name: after trimming it does not start with "groq/"
BareName(m) == ~StartsWith(Strip(m), "groq/")

\* C11: normalizing a normalized identifier changes nothing, and the result
\* for a bare name starts with "groq/" followed by a text that does not start
\* with "groq/" (the prefix is there once, not twice).
C11_NormalizationIdempotent ==
    op = "_normalize_groq_model" =>
        /\ Len(normalized) = 2 => normalized[2] = normalized[1]
        /\ (Len(normalized) >= 1 /\ BareName(model))
            => /\ StartsWith(normalized[1], "groq/")
               /\ ~StartsWith(Slice(normalized[1], 6, Len(normalized[1])), "groq/")

C11_Witness ==
    /\ op = "_normalize_groq_model"
    /\ model = " groq\t"
    /\ normalized = <<"groq/groq", "groq/groq">>

NoBrace(t) == ~Contains(t, "{") /\ ~Contains(t, "}")

\* C12: _safe_json_parse returns a JSON object or None, and None for every
\* text without a brace.
C12_ParseReturnsObjectOrNone ==
    (op = "_safe_json_parse" /\ phase = "returned")
        => /\ json_value.k \in {"dict", "null"}
           /\ NoBrace(json_text) => json_value.k = "null"

====
